---- MODULE Spec2Model ----
(***************************************************************************)
(* Color Variation Generator: the generation engines of the repository.    *)
(*                                                                         *)
(*   Spec     the GUI engine with cooperative cancellation (main_v3.py):   *)
(*            start_processing / cancel_processing on the UI thread and    *)
(*            the process_image worker threads.                            *)
(*   SpecV5   the GUI application of main_v5.py: generate_variations on    *)
(*            the UI thread, _generate_variations_thread workers and the   *)
(*            deferred (after) callbacks drained by the event loop.        *)
(*   SpecFn   the pure per-grid-cell and per-pixel functions.              *)
(***************************************************************************)
EXTENDS Integers, Sequences, FiniteSets, TLC

\* ------------------------------------------------------------------ bounds
MaxRuns == 2
MaxHue == 2
MaxSat == 2
MaxFaults == 1
MaxCount == 50
MaxGrid == 3
MaxFolder == 4
MaxSide == 110
MaxLoads == 1
MaxHueV2 == 181
MaxSatV2 == 2

\* OpenCV keeps the hue of an 8-bit image in 0..179.
HueRange == 180

\* ------------------------------------------------------- program constants
DefaultSaturationLevels == 3
DefaultHueVariations == 10

VARIABLES
    \* main_v3.py, ColorVariationGenerator
    is_processing,      \* self.is_processing
    saturation_value,   \* self.saturation_value (entry field / config)
    hue_value,          \* self.hue_value (entry field / config)
    warnings,           \* warnings start_processing has logged since the log was cleared
    worker,             \* one record per started run: the process_image thread
    nruns,              \* runs started so far
    budget,             \* start requests and I/O faults the scenario admits
    faults,             \* I/O faults injected so far
    cv_image,           \* self.cv_image: which image is loaded (0, 1, ...)
    \* main_v5.py, ColorVariationApp
    hue_var_count,      \* self.hue_var_count (entry field)
    sat_var_count,      \* self.sat_var_count (entry field)
    overwrite_var,      \* self.overwrite_var (check box)
    folders,            \* output folders that exist: 0 is <base>, k is <base>_k
    progress_bar,       \* the value the progress bar shows
    after_queue,        \* callbacks scheduled with after(0, ...), in order
    timers,             \* pending after(2000, ...) resets of the progress bar
    thread,             \* one record per run: _generate_variations_thread
    nthreads,           \* runs started so far
    budget5,            \* start requests and I/O faults the scenario admits
    faults5,            \* I/O faults injected so far
    \* the pure functions of the sweep, one program at a time
    program,            \* which program's function is applied
    count,              \* the hue or saturation count N
    index,              \* the loop index i, or N for one full turn
    src_alpha,          \* alpha value of a pixel of an RGBA source
    transparency_mode,  \* 0 all pixels, 1 transparent only, 2 opaque only
    result,             \* what the function applied last returned
    \* one pixel of one variation: main_v4._apply_color_variation and
    \* main_v3.process_rgb_image / process_rgba_image
    px_program,         \* which program processes the pixel
    has_alpha,          \* the source image has an alpha channel
    pixel,              \* the source pixel [r, g, b, a]
    skip_gray,          \* main_v4 self.skip_gray
    skip_near_gray_threshold,   \* main_v4 self.skip_near_gray_threshold
    transparent_only,   \* main_v4 self.transparent_only
    opaque_only,        \* main_v4 self.opaque_only
    rgb_scale,          \* main_v4 (r_scale, g_scale, b_scale), in hundredths
    px_transparency_mode,       \* main_v3 self.transparency_mode
    cell,               \* grid cell [hue_idx, hue_count, sat_idx, sat_count]
    variation,          \* the pixel of the variation, once computed
    rgb_adjustment_mode,        \* main_v5 self.rgb_adjustment_mode
    adjusted,           \* the pixel after the channel adjustment, once computed
    \* main_v4.py, the command line program
    args,               \* the command line and what it names on disk
    cli_pc,             \* where main() is
    cli_dirs,           \* directories that exist: 0 is output_dir, 1 is
                        \* <stem>_variations, 1 + i is <stem>_variations_<i>
    output_dir,         \* the directory create_output_directory returned
    v4_sat_idx,         \* sat_idx, loop index of process_image
    v4_hue_idx,         \* hue_idx, loop index of process_image
    var_index,          \* var_index of process_image
    written,            \* variation files on disk, in the order written
    details_saved,      \* processing_details.json was written
    dry_logged,         \* the variations the dry run has logged, in order
    success,            \* what process_image returned ("True", "False"),
                        \* "none" before
    exit_code,          \* the code main() ended with, -1 while it runs
    cli_faults,         \* I/O faults injected so far
    \* the unique folder functions, applied to a directory listing
    uf_program,         \* whose function it is
    uf_dirs,            \* the folders that exist: 0 is P, k is P_k
    uf_path,            \* the folder returned, -1 before the call
    \* main_v3.py create_thumbnail, applied to an image shape
    img_shape,          \* [w, h, channels] of the image handed in
    thumbnail,          \* what the call gave
    \* main_v2.py, ImageVariationGenerator
    v2_hue_var_count,   \* self.hue_variations (entry field)
    v2_sat_var_count,   \* self.saturation_variations (entry field)
    btn_generate,       \* state of the generate button
    v2_pc,              \* where the process_variations thread stands
    v2_h,               \* loop variable h
    v2_s,               \* loop variable s
    processed_count,    \* processed_count
    v2_progress,        \* the last value handed to update_progress
    variations_folder   \* the files in <output_dir>/variations

varsV3 == <<is_processing, saturation_value, hue_value, warnings, worker,
            nruns, budget, faults, cv_image>>
varsV5 == <<hue_var_count, sat_var_count, overwrite_var, folders, progress_bar,
            after_queue, timers, thread, nthreads, budget5, faults5>>
varsFn == <<program, count, index, src_alpha, transparency_mode, result>>
varsPx == <<px_program, has_alpha, pixel, skip_gray, skip_near_gray_threshold,
            transparent_only, opaque_only, rgb_scale, px_transparency_mode,
            cell, variation, rgb_adjustment_mode, adjusted>>
varsCli == <<args, cli_pc, cli_dirs, output_dir, v4_sat_idx, v4_hue_idx, var_index,
             written, details_saved, dry_logged, success, exit_code,
             cli_faults>>
varsUf == <<uf_program, uf_dirs, uf_path>>
varsTh == <<img_shape, thumbnail>>
varsV2 == <<v2_hue_var_count, v2_sat_var_count, btn_generate, v2_pc, v2_h, v2_s,
            processed_count, v2_progress, variations_folder>>
vars == <<varsV3, varsV5, varsFn, varsPx, varsCli, varsUf, varsTh, varsV2>>
NotV3 == <<varsV5, varsFn, varsPx, varsCli, varsUf, varsTh, varsV2>>
NotV5 == <<varsV3, varsFn, varsPx, varsCli, varsUf, varsTh, varsV2>>
NotFn == <<varsV3, varsV5, varsPx, varsCli, varsUf, varsTh, varsV2>>
NotPx == <<varsV3, varsV5, varsFn, varsCli, varsUf, varsTh, varsV2>>
NotCli == <<varsV3, varsV5, varsFn, varsPx, varsUf, varsTh, varsV2>>
NotUf == <<varsV3, varsV5, varsFn, varsPx, varsCli, varsTh, varsV2>>
NotTh == <<varsV3, varsV5, varsFn, varsPx, varsCli, varsUf, varsV2>>
NotV2 == <<varsV3, varsV5, varsFn, varsPx, varsCli, varsUf, varsTh>>

Runs == 1..MaxRuns

\* A progress value num/den, as delivered to the progress bar.
Frac(n, d) == [num |-> n, den |-> d]
IsOne(p) == p.num = p.den

\* What is remembered of a cancel request made while the run was active: where
\* its worker stood at that time. "setup": before the sweep; "checkpoint": in the
\* sweep with no variation in flight; "inflight": a variation started, its file
\* not yet written.
NoCancel == "none"

IdleWorker ==
    [pc |-> "idle", saturation_levels |-> 0, hue_variations |-> 0,
     total_variations |-> 0, sat_idx |-> 0, hue_idx |-> 0,
     variations_created |-> 0,
     files |-> <<>>, emitted |-> <<>>, delivered |-> <<>>,
     warned |-> {}, report |-> "none", broke |-> FALSE,
     save_errors |-> 0, cancel |-> NoCancel,
     started_with |-> 0,     \* history: the image loaded when it was started
     sources |-> <<>>]       \* the image each written file was computed from

Active(r) == worker[r].pc \notin {"idle", "done"}

\* The grid cell of one variation, as process_image labels it: the hue index
\* selects hue_shift, the saturation index selects sat_factor.
Cell(hue_idx, sat_idx) == [hue |-> hue_idx, sat |-> sat_idx]

\* ------------------------------------------------------------------- Init
\* Either several runs, each sweeping one saturation level, on a sound disk; or
\* one run with any counts (a non-positive count selects the defaults, 10 x 3
\* cells) and I/O faults.
InitV3 ==
    /\ is_processing = FALSE
    /\ \/ /\ budget = [starts |-> MaxRuns, faults |-> 0]
          /\ hue_value \in 1..MaxHue
          /\ saturation_value = 1
       \/ /\ budget = [starts |-> 1, faults |-> MaxFaults]
          /\ hue_value \in (0 - 1)..MaxHue
          /\ saturation_value \in (0 - 1)..MaxSat
    /\ warnings = {}
    /\ worker = [r \in Runs |-> IdleWorker]
    /\ nruns = 0
    /\ faults = 0
    /\ cv_image = 0

\* ------------------------------------------------------------ UI thread
\* start_processing with an image loaded.
start_processing ==
    /\ UNCHANGED NotV3
    /\ UNCHANGED <<saturation_value, hue_value, budget, cv_image, faults>>
    /\ IF is_processing
       THEN /\ warnings' = warnings \cup {"already in progress"}
            /\ UNCHANGED <<is_processing, worker, nruns>>
       ELSE /\ nruns < budget.starts
            /\ is_processing' = TRUE
            /\ warnings' = {}
            /\ nruns' = nruns + 1
            /\ worker' = [worker EXCEPT ![nruns + 1] =
                              [IdleWorker EXCEPT !.pc = "start",
                                                 !.delivered = <<Frac(0, 1)>>,
                                                 !.started_with = cv_image]]

\* load_image (file dialog or drop; neither is disabled during a run): the new
\* image replaces self.input_image and self.cv_image.
v3_load_image ==
    /\ UNCHANGED NotV3
    /\ cv_image < MaxLoads
    /\ cv_image' = cv_image + 1
    /\ UNCHANGED <<is_processing, saturation_value, hue_value, warnings, worker,
                   nruns, budget, faults>>

\* What cancel_processing finds of a run at the time of the request; a run that
\* has already made its terminal report is not cancelled any more.
CancelSeen(w) ==
    IF w.pc \in {"idle", "finally", "done"} \/ w.cancel # NoCancel THEN w.cancel
    ELSE IF w.pc = "start" THEN "setup"
    ELSE IF w.pc = "save" THEN "inflight"
    ELSE "checkpoint"

cancel_processing ==
    /\ UNCHANGED NotV3
    /\ is_processing
    /\ is_processing' = FALSE
    /\ UNCHANGED warnings
    /\ worker' = [r \in Runs |-> [worker[r] EXCEPT !.cancel = CancelSeen(worker[r])]]
    /\ UNCHANGED <<saturation_value, hue_value, nruns, budget, cv_image, faults>>

\* ------------------------------------------------- worker: process_image
\* Reads the counts, substitutes the defaults (with a warning each), creates the
\* output directory and computes the total. An OSError of os.makedirs is caught
\* by the except clause ("Error during processing"). Every run gets a directory
\* of its own, so the files are kept per run.
WStart(r) ==
    /\ UNCHANGED NotV3
    /\ worker[r].pc = "start"
    /\ LET s == IF saturation_value <= 0 THEN DefaultSaturationLevels
                ELSE saturation_value
           h == IF hue_value <= 0 THEN DefaultHueVariations ELSE hue_value
           w == {x \in {"saturation", "hue"} :
                   \/ x = "saturation" /\ saturation_value <= 0
                   \/ x = "hue" /\ hue_value <= 0}
       IN \/ /\ worker' = [worker EXCEPT ![r].pc = "outer",
                                         ![r].saturation_levels = s,
                                         ![r].hue_variations = h,
                                         ![r].warned = w,
                                         ![r].total_variations = s * h]
             /\ UNCHANGED faults
          \/ /\ faults < budget.faults
             /\ faults' = faults + 1
             /\ worker' = [worker EXCEPT ![r].pc = "finally",
                                         ![r].saturation_levels = s,
                                         ![r].hue_variations = h,
                                         ![r].warned = w,
                                         ![r].report = "failed"]
    /\ UNCHANGED <<is_processing, saturation_value, hue_value, warnings, nruns,
                   budget, cv_image>>

\* for sat_idx in range(saturation_levels): if not self.is_processing: break
WOuter(r) ==
    /\ UNCHANGED NotV3
    /\ worker[r].pc = "outer"
    /\ worker' =
         IF worker[r].sat_idx >= worker[r].saturation_levels
         THEN [worker EXCEPT ![r].pc = "finish"]
         ELSE IF ~is_processing
         THEN [worker EXCEPT ![r].pc = "finish", ![r].broke = TRUE]
         ELSE [worker EXCEPT ![r].pc = "inner", ![r].hue_idx = 0]
    /\ UNCHANGED <<is_processing, saturation_value, hue_value, warnings, nruns, budget, cv_image, faults>>

\* for hue_idx in range(hue_variations): if not self.is_processing: break
\* and, entering the body, the progress update of the variation that starts.
WInner(r) ==
    /\ UNCHANGED NotV3
    /\ worker[r].pc = "inner"
    /\ LET w == worker[r] IN
       worker' =
         IF w.hue_idx >= w.hue_variations
         THEN [worker EXCEPT ![r].pc = "outer", ![r].sat_idx = w.sat_idx + 1]
         ELSE IF ~is_processing
         THEN [worker EXCEPT ![r].pc = "outer", ![r].sat_idx = w.sat_idx + 1,
                             ![r].broke = TRUE]
         ELSE [worker EXCEPT
                 ![r].pc = "save",
                 ![r].variations_created = w.variations_created + 1,
                 ![r].delivered = Append(w.delivered,
                     Frac(w.variations_created + 1, w.total_variations)),
                 ![r].emitted = Append(w.emitted, Cell(w.hue_idx, w.sat_idx))]
    /\ UNCHANGED <<is_processing, saturation_value, hue_value, warnings, nruns, budget, cv_image, faults>>

\* The variation is processed from self.cv_image.copy(), as it is at that
\* moment, and saved (save_cv_image swallows a write error and
\* returns False), then its thumbnail is made and saved; an exception of the
\* thumbnail step leaves the loops for the except clause ("Error during
\* processing").
WSave(r) ==
    /\ UNCHANGED NotV3
    /\ worker[r].pc = "save"
    /\ LET w == worker[r] IN
       \/ /\ worker' = [worker EXCEPT
                 ![r].pc = "inner", ![r].hue_idx = w.hue_idx + 1,
                 ![r].files = Append(w.files, w.variations_created),
                 ![r].sources = Append(w.sources, cv_image)]
          /\ UNCHANGED faults
       \/ /\ faults < budget.faults
          /\ faults' = faults + 1
          /\ worker' = [worker EXCEPT
                 ![r].pc = "inner", ![r].hue_idx = w.hue_idx + 1,
                 ![r].save_errors = w.save_errors + 1]
       \/ /\ faults < budget.faults
          /\ faults' = faults + 1
          /\ worker' = [worker EXCEPT
                 ![r].pc = "finally", ![r].report = "failed",
                 ![r].files = Append(w.files, w.variations_created),
                 ![r].sources = Append(w.sources, cv_image)]
    /\ UNCHANGED <<is_processing, saturation_value, hue_value, warnings, nruns, budget, cv_image>>

\* if self.is_processing: "Processing completed", update_progress(1.0, "Done")
\* else: "Processing cancelled"
WFinish(r) ==
    /\ UNCHANGED NotV3
    /\ worker[r].pc = "finish"
    /\ worker' =
         IF is_processing
         THEN [worker EXCEPT ![r].pc = "finally", ![r].report = "completed",
                  ![r].delivered = Append(worker[r].delivered, Frac(1, 1))]
         ELSE [worker EXCEPT ![r].pc = "finally", ![r].report = "cancelled"]
    /\ UNCHANGED <<is_processing, saturation_value, hue_value, warnings, nruns, budget, cv_image, faults>>

\* finally: self.is_processing = False
\* (variant of WFinally: the run ends and leaves the processing flag alone)
WFinallyKeepsFlag(r) ==
    /\ UNCHANGED NotV3
    /\ worker[r].pc = "finally"
    /\ worker' = [worker EXCEPT ![r].pc = "done"]
    /\ UNCHANGED <<is_processing, saturation_value, hue_value, warnings, nruns,
                   budget, cv_image, faults>>

WFinally(r) ==
    /\ UNCHANGED NotV3
    /\ worker[r].pc = "finally"
    /\ is_processing' = FALSE
    /\ worker' = [worker EXCEPT ![r].pc = "done"]
    /\ UNCHANGED <<saturation_value, hue_value, warnings, nruns, budget, cv_image,
                   faults>>

process_image(r) ==
    \/ WStart(r)
    \/ WOuter(r)
    \/ WInner(r)
    \/ WSave(r)
    \/ WFinish(r)
    \/ WFinally(r)

\* ======================================================= main_v5.py
IdleThread ==
    [pc |-> "idle", output_path |-> 0, hue_count |-> 0, sat_count |-> 0,
     total_variations |-> 0, h_idx |-> 0, s_idx |-> 0, generated_count |-> 0,
     combined_variations |-> <<>>, num_saved |-> 0, saved |-> <<>>,
     delivered |-> <<>>, warned |-> {}, report |-> "none",
     requested_dirs |-> {}]      \* history: the folders when it was requested

ThreadActive(r) == thread[r].pc \notin {"idle", "done"}

\* get_unique_folder_path: base_path if it does not exist, else the first of
\* base_path_1, base_path_2, ... that does not exist.
RECURSIVE get_unique_folder_path(_, _)
get_unique_folder_path(dirs, counter) ==
    IF counter \in dirs THEN get_unique_folder_path(dirs, counter + 1)
    ELSE counter

\* The file name index of the i-th saved variation (enumerate counts from 0).
SaveIndex(i) == i

InitV5 ==
    /\ \/ /\ budget5 = [starts |-> MaxRuns, faults |-> 0]
          /\ hue_var_count = 1
          /\ sat_var_count = 1
       \/ /\ budget5 = [starts |-> 1, faults |-> MaxFaults]
          /\ hue_var_count \in (0 - 1)..MaxHue
          /\ sat_var_count \in (0 - 1)..MaxSat
    /\ overwrite_var \in BOOLEAN
    /\ folders \in {{}, {0}}
    /\ progress_bar = Frac(0, 1)
    /\ after_queue = <<>>
    /\ timers = 0
    /\ thread = [r \in Runs |-> IdleThread]
    /\ nthreads = 0
    /\ faults5 = 0

\* generate_variations with an image loaded: creates the output folder, reads the
\* counts and starts a thread. Nothing is checked about a run in progress.
generate_variations ==
    /\ UNCHANGED NotV5
    /\ nthreads < budget5.starts
    /\ nthreads' = nthreads + 1
    /\ \/ /\ folders' = folders \cup {0}
          /\ thread' = [thread EXCEPT ![nthreads + 1] =
                 [IdleThread EXCEPT !.pc = "begin",
                                    !.hue_count = hue_var_count,
                                    !.sat_count = sat_var_count,
                                    !.requested_dirs = folders]]
          /\ UNCHANGED faults5
       \/ /\ faults5 < budget5.faults
          /\ faults5' = faults5 + 1
          /\ thread' = [thread EXCEPT ![nthreads + 1] =
                 [IdleThread EXCEPT !.pc = "done", !.report = "failed"]]
          /\ UNCHANGED folders
    /\ UNCHANGED <<hue_var_count, sat_var_count, overwrite_var, progress_bar,
                   after_queue, timers, budget5>>

\* The event loop runs the oldest after(0, ...) callback: progress_bar.set(p).
run_after_callback ==
    /\ UNCHANGED NotV5
    /\ after_queue # <<>>
    /\ LET cb == Head(after_queue) IN
       /\ progress_bar' = cb.p
       /\ thread' = [thread EXCEPT ![cb.run].delivered =
                         Append(thread[cb.run].delivered, cb.p)]
    /\ after_queue' = Tail(after_queue)
    /\ UNCHANGED <<hue_var_count, sat_var_count, overwrite_var, folders, timers,
                   nthreads, budget5, faults5>>

\* The event loop runs an after(2000, ...) callback: progress_bar.set(0).
run_timer ==
    /\ UNCHANGED NotV5
    /\ timers > 0
    /\ timers' = timers - 1
    /\ progress_bar' = Frac(0, 1)
    /\ UNCHANGED <<hue_var_count, sat_var_count, overwrite_var, folders,
                   after_queue, thread, nthreads, budget5, faults5>>

\* progress_bar.set(0), then the unique folder path unless overwriting.
TBegin(r) ==
    /\ UNCHANGED NotV5
    /\ thread[r].pc = "begin"
    /\ progress_bar' = Frac(0, 1)
    /\ thread' = [thread EXCEPT
           ![r].pc = "mkdirs",
           ![r].delivered = Append(thread[r].delivered, Frac(0, 1)),
           ![r].output_path =
               IF overwrite_var THEN 0 ELSE get_unique_folder_path(folders, 0)]
    /\ UNCHANGED <<hue_var_count, sat_var_count, overwrite_var, folders,
                   after_queue, timers, nthreads, budget5, faults5>>

\* An exception in the thread: "log the error", progress_bar.set(0).
Failed(t) ==
    [t EXCEPT !.pc = "finally", !.report = "failed",
              !.delivered = Append(t.delivered, Frac(0, 1))]

\* os.makedirs(output_path), os.makedirs(combined_dir), the total.
TMkdirs(r) ==
    /\ UNCHANGED NotV5
    /\ thread[r].pc = "mkdirs"
    /\ \/ /\ folders' = folders \cup {thread[r].output_path}
          /\ thread' = [thread EXCEPT
                 ![r].pc = "generate",
                 ![r].total_variations = thread[r].hue_count * thread[r].sat_count]
          /\ UNCHANGED <<progress_bar, faults5>>
       \/ /\ faults5 < budget5.faults
          /\ faults5' = faults5 + 1
          /\ thread' = [thread EXCEPT ![r] = Failed(thread[r])]
          /\ progress_bar' = Frac(0, 1)
          /\ UNCHANGED folders
    /\ UNCHANGED <<hue_var_count, sat_var_count, overwrite_var, after_queue,
                   timers, nthreads, budget5>>

\* for h_idx in range(hue_count): for s_idx in range(sat_count): one variation is
\* appended and its progress is scheduled with after(0, ...). After the loops:
\* progress_bar.set(0.8).
TGenerate(r) ==
    /\ UNCHANGED NotV5
    /\ thread[r].pc = "generate"
    /\ LET t == thread[r] IN
       IF t.h_idx >= t.hue_count
       THEN /\ thread' = [thread EXCEPT
                   ![r].pc = "save",
                   ![r].delivered = Append(t.delivered, Frac(8, 10))]
            /\ progress_bar' = Frac(8, 10)
            /\ UNCHANGED after_queue
       ELSE IF t.s_idx >= t.sat_count
       THEN /\ thread' = [thread EXCEPT ![r].h_idx = t.h_idx + 1, ![r].s_idx = 0]
            /\ UNCHANGED <<progress_bar, after_queue>>
       ELSE /\ thread' = [thread EXCEPT
                   ![r].s_idx = t.s_idx + 1,
                   ![r].generated_count = t.generated_count + 1,
                   ![r].combined_variations =
                       Append(t.combined_variations, Cell(t.h_idx, t.s_idx))]
            /\ after_queue' = Append(after_queue,
                   [run |-> r,
                    p |-> Frac(t.generated_count + 1, t.total_variations)])
            /\ UNCHANGED progress_bar
    /\ UNCHANGED <<hue_var_count, sat_var_count, overwrite_var, folders, timers,
                   nthreads, budget5, faults5>>

\* for i, var in enumerate(combined_variations): var['image'].save(...); then the
\* adjusted image is saved and progress_bar.set(1.0).
TSave(r) ==
    /\ UNCHANGED NotV5
    /\ thread[r].pc = "save"
    /\ LET t == thread[r] IN
       \/ /\ t.num_saved < Len(t.combined_variations)
          /\ thread' = [thread EXCEPT
                 ![r].num_saved = t.num_saved + 1,
                 ![r].saved = Append(t.saved, SaveIndex(t.num_saved))]
          /\ UNCHANGED <<progress_bar, faults5>>
       \/ /\ t.num_saved >= Len(t.combined_variations)
          /\ thread' = [thread EXCEPT
                 ![r].pc = "finally", ![r].report = "completed",
                 ![r].delivered = Append(t.delivered, Frac(1, 1))]
          /\ progress_bar' = Frac(1, 1)
          /\ UNCHANGED faults5
       \/ /\ faults5 < budget5.faults
          /\ faults5' = faults5 + 1
          /\ thread' = [thread EXCEPT ![r] = Failed(t)]
          /\ progress_bar' = Frac(0, 1)
    /\ UNCHANGED <<hue_var_count, sat_var_count, overwrite_var, folders,
                   after_queue, timers, nthreads, budget5>>

\* finally: progress_bar.stop(); self.after(2000, lambda: progress_bar.set(0))
TFinally(r) ==
    /\ UNCHANGED NotV5
    /\ thread[r].pc = "finally"
    /\ thread' = [thread EXCEPT ![r].pc = "done"]
    /\ timers' = timers + 1
    /\ UNCHANGED <<hue_var_count, sat_var_count, overwrite_var, folders,
                   progress_bar, after_queue, nthreads, budget5, faults5>>

generate_variations_thread(r) ==
    \/ TBegin(r)
    \/ TMkdirs(r)
    \/ TGenerate(r)
    \/ TSave(r)
    \/ TFinally(r)

\* ======================================================= pure functions
Programs == {"main_v2", "main_v3", "main_v4", "main_v5"}
AlphaValues == {0, 128, 255}
Opaque == 255

RECURSIVE BitLength(_)
BitLength(n) == IF n = 0 THEN 0 ELSE 1 + BitLength(n \div 2)

RECURSIVE Pow2(_)
Pow2(e) == IF e = 0 THEN 1 ELSE 2 * Pow2(e - 1)

RECURSIVE Pow2Mod(_, _)
Pow2Mod(e, n) == IF e = 0 THEN 1 % n ELSE (2 * Pow2Mod(e - 1, n)) % n

\* Whether the double n * (1 / n) is the double just below 1.0. For n between
\* 2^(b-1) and 2^b the quotient 1/n is rounded to m * 2^-(52+b) with
\* 2^(52+b) = m*n + r when 2r < n, so the product is 1 - r * 2^-(52+b), which
\* is rounded to 1.0 unless r * 2^-(52+b) exceeds half the gap 2^-53 below 1.0.
\* When the quotient is rounded up the product rounds to 1.0.
ProductBelowOne(n) ==
    LET b == BitLength(n)
        r == Pow2Mod(52 + b, n)
    IN  /\ n # Pow2(b - 1)
        /\ 2 * r < n
        /\ r > Pow2(b - 2)

\* A saturation factor: the quotient num/den, and below = TRUE when the double
\* the program holds is the one just under that quotient.
Factor(n, d, b) == [num |-> n, den |-> d, below |-> b]

\* main_v2, main_v3, main_v4: (s + 1) / sat_count, one correctly rounded
\* division.  main_v5, main_beta: (s_idx + 1) * (1 / sat_count); the rounding
\* of the product is modelled for the last index, where the quotient is 1.
saturation_factor(prog, s_idx, sat_count) ==
    IF prog = "main_v5"
    THEN Factor(s_idx + 1, sat_count,
                s_idx + 1 = sat_count /\ ProductBelowOne(sat_count))
    ELSE Factor(s_idx + 1, sat_count, FALSE)

\* The hue rotation in degrees. main_v4: (hue_idx * 360) / hue_count.
\* main_v3: (360.0 / hue_variations) * hue_idx. main_v5: h_idx * (180 /
\* hue_count), doubled for the degrees. main_v2: int(h * (180 / hue_var_count))
\* in OpenCV's half degrees.
hue_shift(prog, hue_idx, hue_count) ==
    IF prog = "main_v2"
    THEN Frac(2 * ((hue_idx * 180) \div hue_count), 1)
    ELSE Frac(hue_idx * 360, hue_count)

\* (variant of process_mask: the transparent-only mode lets opaque pixels
\* through as well)
process_mask_inclusive(mode, alpha) ==
    IF mode = 0 THEN TRUE
    ELSE IF mode = 1 THEN alpha <= 255
    ELSE alpha = 255

\* process_rgba_image: the pixels the variation replaces.
process_mask(mode, alpha) ==
    IF mode = 0 THEN TRUE
    ELSE IF mode = 1 THEN alpha < 255
    ELSE alpha = 255

\* The alpha value of a pixel of an emitted variation. main_v3, main_v4 and
\* main_v5 split the alpha channel off and merge it back unchanged. main_v2
\* loads with cv2.imread, which returns three channels, and writes three
\* channels: the variation has no alpha channel, every pixel is opaque.
output_alpha(prog, mode, alpha) ==
    IF prog = "main_v2" THEN Opaque ELSE alpha

NoResult == [op |-> "none"]

InitFnInputs ==
    /\ program \in Programs
    /\ count \in 1..MaxCount
    /\ index \in 0..count
    /\ src_alpha \in AlphaValues
    /\ transparency_mode \in 0..2
    /\ result = NoResult

NotRunningFn ==
    /\ program = "main_v3"
    /\ count = 1
    /\ index = 0
    /\ src_alpha = Opaque
    /\ transparency_mode = 0
    /\ result = NoResult

ApplySaturationFactor ==
    /\ UNCHANGED NotFn
    /\ index < count
    /\ result' = [op |-> "saturation",
                  value |-> saturation_factor(program, index, count)]
    /\ UNCHANGED <<program, count, index, src_alpha, transparency_mode>>

ApplyHueShift ==
    /\ UNCHANGED NotFn
    /\ result' = [op |-> "hue", value |-> hue_shift(program, index, count)]
    /\ UNCHANGED <<program, count, index, src_alpha, transparency_mode>>

ApplyToPixel ==
    /\ UNCHANGED NotFn
    /\ result' = [op |-> "pixel",
                  processed |-> process_mask(transparency_mode, src_alpha),
                  alpha |-> output_alpha(program, transparency_mode, src_alpha)]
    /\ UNCHANGED <<program, count, index, src_alpha, transparency_mode>>

\* ======================================================= one pixel
Max3(a, b, c) == IF a >= b /\ a >= c THEN a ELSE IF b >= c THEN b ELSE c
Min3(a, b, c) == IF a <= b /\ a <= c THEN a ELSE IF b <= c THEN b ELSE c

Rgb(r, g, b) == [r |-> r, g |-> g, b |-> b]

\* (variant of gray_mask: a pixel whose difference equals the threshold is
\* skipped as well)
gray_mask_strict(skip, threshold, p) ==
    LET diff == Max3(p.r, p.g, p.b) - Min3(p.r, p.g, p.b) IN
    /\ skip => diff > 0
    /\ threshold > 0 => diff > threshold

\* main_v4: the grayscale rules of the mask. diff = max - min of the channels.
gray_mask(skip, threshold, p) ==
    LET diff == Max3(p.r, p.g, p.b) - Min3(p.r, p.g, p.b) IN
    /\ skip => diff > 0
    /\ threshold > 0 => diff >= threshold

\* main_v4: the transparency rules of the mask, for an image with alpha.
alpha_mask(t_only, o_only, a) ==
    IF t_only THEN a < 255
    ELSE IF o_only THEN a = 255
    ELSE TRUE

\* value * scale / 100, clamped to [0, 255], stored into a uint8 (truncated);
\* value is the quotient num / den, den > 0. The program computes the value in
\* double arithmetic: when the quotient is a whole number k the double may lie
\* just under k and is then truncated to k - 1 (lose = 1).
\* (variant of ScaleClampTruncate: every whole value loses a unit)
ScaleClampTruncateBelow(num, den, scale, lose) ==
    LET n == num * scale
        d == den * 100
    IN  IF n <= 0 THEN 0
        ELSE IF n > 255 * d THEN 255
        ELSE IF n % d = 0 THEN (n \div d) - 1
        ELSE n \div d

ScaleClampTruncate(num, den, scale, lose) ==
    LET n == num * scale
        d == den * 100
    IN  IF n <= 0 THEN 0
        ELSE IF n > 255 * d THEN 255
        ELSE IF n % d = 0 THEN (n \div d) - lose
        ELSE n \div d

\* main_v4: the hue (degrees) and saturation of a pixel before rotation and
\* scaling, as fractions: h = 0 when delta = 0, s = 0 when cmax = 0.
rgb_to_hs(p) ==
    LET cmax == Max3(p.r, p.g, p.b)
        cmin == Min3(p.r, p.g, p.b)
        delta == cmax - cmin
        hn == IF delta = 0 THEN 0
              ELSE IF cmax = p.r THEN (p.g - p.b) % (6 * delta)
              ELSE IF cmax = p.g THEN (p.b - p.r) + 2 * delta
              ELSE (p.r - p.g) + 4 * delta
    IN  [h |-> IF delta = 0 THEN Frac(0, 1) ELSE Frac(60 * hn, delta),
         s |-> IF cmax = 0 THEN Frac(0, 1) ELSE Frac(delta, cmax)]

\* main_v4: the per-pixel RGB -> HSV, rotation, scaling, HSV -> RGB and channel
\* multipliers, in exact arithmetic. hn is the hue in units of 60/delta degrees,
\* Hn the rotated hue in units of 60/(delta*hue_count) degrees, w the factor
\* 1 - |(h/60 mod 2) - 1| times delta*hue_count; the three channel values times
\* 255 are top = cmax, mid and low. loss[k] says whether channel k loses a unit
\* to the rounding of the doubles. A pixel with equal channels never does; with
\* s = 1.0 (low = 0: m = v - c is 0.0) top is (v + 0.0) * 255, which is exact,
\* and so is mid when the hue is a multiple of 60 degrees (x is c or 0.0).
apply_hsv(p, c, scale, loss) ==
    LET cmax == Max3(p.r, p.g, p.b)
        cmin == Min3(p.r, p.g, p.b)
        delta == cmax - cmin
        a == c.sat_idx + 1
        M == c.sat_count
        N == c.hue_count
        hn == IF delta = 0 THEN 0
              ELSE IF cmax = p.r THEN (p.g - p.b) % (6 * delta)
              ELSE IF cmax = p.g THEN (p.b - p.r) + 2 * delta
              ELSE (p.r - p.g) + 4 * delta
        unit == IF delta = 0 THEN N ELSE delta * N
        Hn == (hn * N + 6 * c.hue_idx * (IF delta = 0 THEN 1 ELSE delta))
                  % (6 * unit)
        sector == Hn \div unit
        T == Hn % (2 * unit)
        w == IF T <= unit THEN T ELSE 2 * unit - T
        \* channel values times 255, as quotients over lowden
        lownum == cmax * M - delta * a
        lowden == M
        midnum == IF delta = 0 THEN cmax * M * N
                  ELSE (a * w) + N * lownum
        midden == N * M
        lose(k) == IF delta = 0 THEN 0 ELSE loss[k]
        loseTop(k) == IF lownum = 0 THEN 0 ELSE lose(k)
        loseMid(k) == IF lownum = 0 /\ Hn % unit = 0 THEN 0 ELSE lose(k)
        topS(k) == ScaleClampTruncate(cmax, 1, scale[k], loseTop(k))
        midS(k) == ScaleClampTruncate(midnum, midden, scale[k], loseMid(k))
        lowS(k) == ScaleClampTruncate(lownum, lowden, scale[k], lose(k))
    IN  IF sector = 0 THEN Rgb(topS(1), midS(2), lowS(3))
        ELSE IF sector = 1 THEN Rgb(midS(1), topS(2), lowS(3))
        ELSE IF sector = 2 THEN Rgb(lowS(1), topS(2), midS(3))
        ELSE IF sector = 3 THEN Rgb(lowS(1), midS(2), topS(3))
        ELSE IF sector = 4 THEN Rgb(midS(1), lowS(2), topS(3))
        ELSE Rgb(topS(1), lowS(2), midS(3))

\* main_v4._apply_color_variation for one pixel: the mask, then the transform of
\* a pixel the mask lets through; alpha is never written.
apply_color_variation(alpha_present, p, skip, threshold, t_only, o_only, scale, c, loss) ==
    LET mask == /\ gray_mask(skip, threshold, p)
                /\ alpha_present => alpha_mask(t_only, o_only, p.a)
        out == IF mask THEN apply_hsv(p, c, scale, loss)
               ELSE Rgb(p.r, p.g, p.b)
    IN  [processed |-> mask, r |-> out.r, g |-> out.g, b |-> out.b, a |-> p.a]

\* Rounding of a non-negative quotient to the nearest integer, ties to even
\* (OpenCV's saturate_cast from a floating point value).
RoundHalfEven(num, den) ==
    LET q == num \div den
        r == num % den
    IN  IF 2 * r < den THEN q
        ELSE IF 2 * r > den THEN q + 1
        ELSE q + (q % 2)

\* cv2.cvtColor(..., COLOR_BGR2HSV) on 8-bit pixels: V = max, S and H from the
\* 12-bit fixed point division tables, H in 0..179.
sdiv_table(v) == IF v = 0 THEN 0 ELSE RoundHalfEven(255 * 4096, v)
hdiv_table180(d) == IF d = 0 THEN 0 ELSE RoundHalfEven(180 * 4096, 6 * d)

bgr2hsv(p) ==
    LET v == Max3(p.r, p.g, p.b)
        diff == v - Min3(p.r, p.g, p.b)
        sat == (diff * sdiv_table(v) + 2048) \div 4096
        hraw == IF v = p.r THEN p.g - p.b
                ELSE IF v = p.g THEN p.b - p.r + 2 * diff
                ELSE p.r - p.g + 4 * diff
        hfix == (hraw * hdiv_table180(diff) + 2048) \div 4096
    IN  [h |-> IF hfix < 0 THEN hfix + 180 ELSE hfix, s |-> sat, v |-> v]

\* cv2.cvtColor(..., COLOR_HSV2BGR) on 8-bit pixels with h in 0..179: the
\* sector of 30, the three interpolated values, rounded to 8 bits.
hsv2bgr(c) ==
    IF c.s = 0 THEN Rgb(c.v, c.v, c.v)
    ELSE
    LET sector == c.h \div 30
        hm == c.h % 30
        tab0 == c.v
        tab1 == RoundHalfEven(c.v * (255 - c.s), 255)
        tab2 == RoundHalfEven(c.v * (7650 - c.s * hm), 7650)
        tab3 == RoundHalfEven(c.v * (7650 - c.s * (30 - hm)), 7650)
    IN  IF sector = 0 THEN Rgb(tab0, tab3, tab1)
        ELSE IF sector = 1 THEN Rgb(tab2, tab0, tab1)
        ELSE IF sector = 2 THEN Rgb(tab1, tab0, tab3)
        ELSE IF sector = 3 THEN Rgb(tab1, tab2, tab0)
        ELSE IF sector = 4 THEN Rgb(tab3, tab1, tab0)
        ELSE Rgb(tab0, tab1, tab2)

\* main_v3.process_rgb_image for one pixel: h = mod(h + hue_shift / 2, 180),
\* s = clip(s * sat_factor, 0, 255), both truncated by astype(uint8). The
\* grayscale mode and the threshold are parameters the function never reads.
process_rgb_image(p, c, grayscale_mode, threshold) ==
    LET hsv == bgr2hsv(p)
        h2 == ((hsv.h * c.hue_count + 180 * c.hue_idx) % (180 * c.hue_count))
                  \div c.hue_count
        s2 == (hsv.s * (c.sat_idx + 1)) \div c.sat_count
    IN  hsv2bgr([h |-> h2, s |-> IF s2 > 255 THEN 255 ELSE s2, v |-> hsv.v])

\* main_v3.process_rgba_image for one pixel: the mask of the transparency
\* mode, np.where(process_mask, processed_bgr, bgr), the alpha merged back.
process_rgba_image(p, c, grayscale_mode, threshold, mode) ==
    LET mask == process_mask(mode, p.a)
        out == IF mask THEN process_rgb_image(p, c, 0, 0)
               ELSE Rgb(p.r, p.g, p.b)
    IN  [processed |-> mask, r |-> out.r, g |-> out.g, b |-> out.b, a |-> p.a]

\* (variant of adjust_image_rgb: the additive offset is taken from strength,
\* not from strength - 1)
adjust_image_rgb_from_zero(p, strengths, mode) ==
    LET ch(c, k) ==
            IF mode = "additive"
            THEN LET n == c * 100 + strengths[k] * 255 IN
                 IF n <= 0 THEN 0 ELSE IF n >= 25500 THEN 255 ELSE n \div 100
            ELSE LET n == c * strengths[k] IN
                 IF n >= 25500 THEN 255 ELSE n \div 100
    IN  [r |-> ch(p.r, 1), g |-> ch(p.g, 2), b |-> ch(p.b, 3), a |-> p.a]

\* main_v5.adjust_image_rgb for one pixel, strengths in hundredths: additive
\* adds (strength - 1.0) * 255, multiplicative multiplies by the strength; the
\* result is clipped to [0, 255] and truncated by astype(uint8); alpha is
\* copied. An image without alpha is converted to RGBA first (alpha 255).
adjust_image_rgb(p, strengths, mode) ==
    LET ch(c, k) ==
            IF mode = "additive"
            THEN LET n == c * 100 + (strengths[k] - 100) * 255 IN
                 IF n <= 0 THEN 0 ELSE IF n >= 25500 THEN 255 ELSE n \div 100
            ELSE LET n == c * strengths[k] IN
                 IF n >= 25500 THEN 255 ELSE n \div 100
    IN  [r |-> ch(p.r, 1), g |-> ch(p.g, 2), b |-> ch(p.b, 3), a |-> p.a]

\* main_v2.apply_rgb_adjustment for one pixel: cv2.multiply by the scale
\* (rounded, saturated), then clipped.
apply_rgb_adjustment(p, strengths) ==
    LET ch(c, k) == LET v == RoundHalfEven(c * strengths[k], 100) IN
                    IF v > 255 THEN 255 ELSE v
    IN  [r |-> ch(p.r, 1), g |-> ch(p.g, 2), b |-> ch(p.b, 3), a |-> p.a]

Strengths == {<<100, 100, 100>>, <<50, 100, 150>>, <<0, 200, 110>>}

SourceColors ==
    {Rgb(100, 100, 100), Rgb(100, 104, 100), Rgb(200, 100, 50), Rgb(0, 3, 10),
     Rgb(255, 0, 0), Rgb(255, 255, 255)}

\* The cells of the grids up to MaxGrid x MaxGrid, and of the grid 4 x 1.
Cells ==
    {c \in [hue_idx : 0..(MaxGrid - 1), hue_count : 1..MaxGrid,
            sat_idx : 0..(MaxGrid - 1), sat_count : 1..MaxGrid] :
        c.hue_idx < c.hue_count /\ c.sat_idx < c.sat_count}
    \cup [hue_idx : 0..3, hue_count : {4}, sat_idx : {0}, sat_count : {1}]

NoVariation == [done |-> FALSE]

InitPxInputs ==
    /\ has_alpha \in BOOLEAN
    /\ \E c \in SourceColors, a \in AlphaValues :
          /\ ~has_alpha => a = Opaque
          /\ pixel = [r |-> c.r, g |-> c.g, b |-> c.b, a |-> a]
    /\ variation = NoVariation
    /\ adjusted = NoVariation
    /\ \/ /\ px_program = "main_v4"
          /\ cell \in Cells
          /\ rgb_adjustment_mode = "additive"
          /\ skip_gray \in BOOLEAN
          /\ skip_near_gray_threshold \in {0, 10}
          /\ transparent_only \in BOOLEAN
          /\ opaque_only \in BOOLEAN
          /\ rgb_scale \in {<<100, 100, 100>>, <<50, 100, 150>>}
          /\ px_transparency_mode = 0
       \/ /\ px_program \in {"main_v5", "main_v2"}
          /\ px_program = "main_v2" => ~has_alpha
          /\ cell = [hue_idx |-> 0, hue_count |-> 1,
                     sat_idx |-> 0, sat_count |-> 1]
          /\ rgb_adjustment_mode \in
                IF px_program = "main_v5" THEN {"additive", "multiplicative"}
                ELSE {"multiplicative"}
          /\ skip_gray = FALSE
          /\ skip_near_gray_threshold = 0
          /\ transparent_only = FALSE
          /\ opaque_only = FALSE
          /\ rgb_scale \in Strengths
          /\ px_transparency_mode = 0
       \/ /\ px_program = "main_v3"
          /\ cell \in Cells
          /\ rgb_adjustment_mode = "additive"
          /\ skip_gray = FALSE
          /\ skip_near_gray_threshold = 0
          /\ transparent_only = FALSE
          /\ opaque_only = FALSE
          /\ rgb_scale = <<100, 100, 100>>
          /\ px_transparency_mode \in 0..2

NotRunningPx ==
    /\ px_program = "main_v4"
    /\ has_alpha = FALSE
    /\ pixel = [r |-> 0, g |-> 0, b |-> 0, a |-> Opaque]
    /\ skip_gray = FALSE
    /\ skip_near_gray_threshold = 0
    /\ transparent_only = FALSE
    /\ opaque_only = FALSE
    /\ rgb_scale = <<100, 100, 100>>
    /\ px_transparency_mode = 0
    /\ cell = [hue_idx |-> 0, hue_count |-> 1, sat_idx |-> 0, sat_count |-> 1]
    /\ variation = NoVariation
    /\ rgb_adjustment_mode = "additive"
    /\ adjusted = NoVariation

PxInputs == <<px_program, has_alpha, pixel, skip_gray, skip_near_gray_threshold,
              transparent_only, opaque_only, rgb_scale, px_transparency_mode,
              cell, rgb_adjustment_mode>>

\* main_v4: output_img = self._apply_color_variation(sat_factor, hue_rotation)
ApplyColorVariation ==
    /\ UNCHANGED NotPx
    /\ px_program = "main_v4"
    /\ \E loss \in [1..3 -> {0, 1}] :
          variation' =
             [done |-> TRUE,
              px |-> apply_color_variation(has_alpha, pixel, skip_gray,
                         skip_near_gray_threshold, transparent_only,
                         opaque_only, rgb_scale, cell, loss)]
    /\ UNCHANGED <<PxInputs, adjusted>>

\* main_v5.update_preview: self.adjusted_image = adjust_image_rgb(...)
UpdatePreview ==
    /\ UNCHANGED NotPx
    /\ px_program = "main_v5"
    /\ adjusted' = [done |-> TRUE,
                    px |-> adjust_image_rgb(pixel, rgb_scale,
                                            rgb_adjustment_mode)]
    /\ UNCHANGED <<PxInputs, variation>>

\* main_v2.process_variations: adjusted_image = self.apply_rgb_adjustment(...)
ApplyRgbAdjustment ==
    /\ UNCHANGED NotPx
    /\ px_program = "main_v2"
    /\ adjusted' = [done |-> TRUE, px |-> apply_rgb_adjustment(pixel, rgb_scale)]
    /\ UNCHANGED <<PxInputs, variation>>

\* main_v3.process_image: process_rgba_image for a source with alpha, else
\* process_rgb_image; grayscale_mode is 0 and threshold 10 in every run.
ProcessVariation ==
    /\ UNCHANGED NotPx
    /\ px_program = "main_v3"
    /\ variation' =
          [done |-> TRUE,
           px |-> IF has_alpha
                  THEN process_rgba_image(pixel, cell, 0, 10,
                                          px_transparency_mode)
                  ELSE LET out == process_rgb_image(pixel, cell, 0, 10) IN
                       [processed |-> TRUE, r |-> out.r, g |-> out.g,
                        b |-> out.b, a |-> pixel.a]]
    /\ UNCHANGED <<PxInputs, adjusted>>

\* ======================================================= main_v4.py
\* The command lines of the model. valid: argparse accepts the arguments;
\* input_isfile: os.path.isfile(input_path); config: no --config, or a file
\* that loads with every key, loads without input_path, loads as an empty
\* dict, or cannot be read; image_ok: Pillow opens the input.
CommandLines ==
    [valid : BOOLEAN, input_isfile : BOOLEAN,
     config : {"none", "loaded", "incomplete", "empty", "unreadable"},
     image_ok : BOOLEAN, dry_run : BOOLEAN, log_file : BOOLEAN,
     hue_count : 0..MaxHue, sat_count : 1..MaxSat, r_scale : {100, 300}]

InitCli ==
    /\ args \in CommandLines
    /\ cli_pc = "parse"
    /\ cli_dirs \in {{}, {0}, {0, 1}, {0, 1, 2}}
    /\ output_dir = 0
    /\ v4_sat_idx = 0
    /\ v4_hue_idx = 0
    /\ var_index = 0
    /\ written = <<>>
    /\ details_saved = FALSE
    /\ dry_logged = <<>>
    /\ success = "none"
    /\ exit_code = 0 - 1
    /\ cli_faults = 0

NotRunningCli ==
    /\ args = [valid |-> FALSE, input_isfile |-> FALSE, config |-> "none",
               image_ok |-> FALSE, dry_run |-> FALSE, log_file |-> FALSE,
               hue_count |-> 0, sat_count |-> 1, r_scale |-> 100]
    /\ cli_pc = "off"
    /\ cli_dirs = {}
    /\ output_dir = 0
    /\ v4_sat_idx = 0
    /\ v4_hue_idx = 0
    /\ var_index = 0
    /\ written = <<>>
    /\ details_saved = FALSE
    /\ dry_logged = <<>>
    /\ success = "none"
    /\ exit_code = 0 - 1
    /\ cli_faults = 0

\* sys.exit(code), or the interpreter's exit after an uncaught exception (1).
Exit(code) ==
    /\ cli_pc' = "exited"
    /\ exit_code' = code

\* parse_arguments: argparse ends the process with status 2 on a usage error.
parse_arguments ==
    /\ UNCHANGED NotCli
    /\ cli_pc = "parse"
    /\ IF args.valid
       THEN cli_pc' = "main" /\ UNCHANGED exit_code
       ELSE Exit(2)
    /\ UNCHANGED <<args, cli_dirs, output_dir, v4_sat_idx, v4_hue_idx, var_index,
                   written, details_saved, dry_logged, success, cli_faults>>

\* main, up to the call of process_image: the input file check, the config
\* file, ImageProcessor(config) (a KeyError for a config without its keys).
main ==
    /\ UNCHANGED NotCli
    /\ cli_pc = "main"
    /\ IF ~args.input_isfile THEN Exit(1)
       ELSE IF args.config \in {"unreadable", "empty"} THEN Exit(1)
       ELSE IF args.config = "incomplete" THEN Exit(1)
       ELSE cli_pc' = "load_image" /\ UNCHANGED exit_code
    /\ UNCHANGED <<args, cli_dirs, output_dir, v4_sat_idx, v4_hue_idx, var_index,
                   written, details_saved, dry_logged, success, cli_faults>>

\* create_output_directory: output_dir if it does not exist, else the batch
\* directory <stem>_variations, else the first free <stem>_variations_<i>.
RECURSIVE FirstFreeBatch(_, _)
FirstFreeBatch(dirs, i) ==
    IF (1 + i) \in dirs THEN FirstFreeBatch(dirs, i + 1) ELSE 1 + i

create_output_directory(dirs) ==
    IF 0 \notin dirs THEN 0
    ELSE IF 1 \notin dirs THEN 1
    ELSE FirstFreeBatch(dirs, 1)

\* The mkdir of create_output_directory: "if not self.dry_run: ....mkdir(...)".
mkdir_always(dirs, d, dry_run) == dirs \cup {d}

mkdir_unless_dry_run(dirs, d, dry_run) ==
    IF dry_run THEN dirs ELSE dirs \cup {d}

\* _simulate_dry_run's loop: for i in range(sat_count * hue_count), logging
\* the cell sat_idx = i // hue_count, hue_idx = i % hue_count.
simulate_dry_run(sat_count, hue_count) ==
    [n \in 1..(sat_count * hue_count) |->
        Cell((n - 1) % hue_count, (n - 1) \div hue_count)]

\* process_image, first part: load_image, and the whole of a dry run
\* (_simulate_dry_run logs every variation and creates nothing).
load_image ==
    /\ UNCHANGED NotCli
    /\ cli_pc = "load_image"
    /\ IF ~args.image_ok
       THEN /\ success' = "False"
            /\ Exit(1)
            /\ UNCHANGED <<output_dir, cli_dirs, dry_logged>>
       ELSE IF args.dry_run
       THEN /\ output_dir' = create_output_directory(cli_dirs)
            /\ cli_dirs' = mkdir_unless_dry_run(cli_dirs, output_dir',
                                                args.dry_run)
            /\ dry_logged' = simulate_dry_run(args.sat_count, args.hue_count)
            /\ success' = "True"
            /\ Exit(0)
       ELSE /\ cli_pc' = "create_dir"
            /\ UNCHANGED <<output_dir, cli_dirs, dry_logged, success,
                           exit_code>>
    /\ UNCHANGED <<args, v4_sat_idx, v4_hue_idx, var_index, written,
                   details_saved, cli_faults>>

\* process_image: output_dir = self.create_output_directory(); mkdir may raise.
create_dir ==
    /\ UNCHANGED NotCli
    /\ cli_pc = "create_dir"
    /\ \/ /\ output_dir' = create_output_directory(cli_dirs)
          /\ cli_dirs' = mkdir_unless_dry_run(cli_dirs, output_dir',
                                              args.dry_run)
          /\ cli_pc' = "sweep"
          /\ UNCHANGED <<exit_code, cli_faults>>
       \/ /\ cli_faults < MaxFaults
          /\ cli_faults' = cli_faults + 1
          /\ Exit(1)
          /\ UNCHANGED <<output_dir, cli_dirs>>
    /\ UNCHANGED <<args, v4_sat_idx, v4_hue_idx, var_index, written, details_saved,
                   dry_logged, success>>

\* process_image: the two loops; one variation is computed and handed to
\* cv2.imwrite, whose result (False when the file cannot be written) is not
\* looked at.
write_variation ==
    /\ UNCHANGED NotCli
    /\ cli_pc = "sweep"
    /\ IF v4_sat_idx >= args.sat_count
       THEN /\ cli_pc' = "details"
            /\ UNCHANGED <<v4_sat_idx, v4_hue_idx, var_index, written, cli_faults>>
       ELSE IF v4_hue_idx >= args.hue_count
       THEN /\ v4_sat_idx' = v4_sat_idx + 1
            /\ v4_hue_idx' = 0
            /\ UNCHANGED <<cli_pc, var_index, written, cli_faults>>
       ELSE /\ v4_hue_idx' = v4_hue_idx + 1
            /\ var_index' = var_index + 1
            /\ UNCHANGED <<cli_pc, v4_sat_idx>>
            /\ \/ /\ written' = Append(written,
                         [dir |-> output_dir, index |-> var_index,
                          cell |-> Cell(v4_hue_idx, v4_sat_idx)])
                  /\ UNCHANGED cli_faults
               \/ /\ cli_faults < MaxFaults
                  /\ cli_faults' = cli_faults + 1
                  /\ UNCHANGED written
    /\ UNCHANGED <<args, cli_dirs, output_dir, details_saved, dry_logged,
                   success, exit_code>>

\* process_image, last part: _save_processing_details (when a log file was
\* named; open may raise), return True, and main returns 0.
save_processing_details ==
    /\ UNCHANGED NotCli
    /\ cli_pc = "details"
    /\ \/ /\ details_saved' = args.log_file
          /\ success' = "True"
          /\ Exit(0)
          /\ UNCHANGED cli_faults
       \/ /\ args.log_file
          /\ cli_faults < MaxFaults
          /\ cli_faults' = cli_faults + 1
          /\ Exit(1)
          /\ UNCHANGED <<details_saved, success>>
    /\ UNCHANGED <<args, cli_dirs, output_dir, v4_sat_idx, v4_hue_idx, var_index,
                   written, dry_logged>>

\* ======================================================= unique folders
\* main_v2's generate_unique_folder_name: P is <base_name>_variation; the
\* counter starts at 1 and P itself is never looked at.
generate_unique_folder_name(dirs) == get_unique_folder_path(dirs, 1)

UniqueFolderPrograms == {"main_v5", "main_beta", "main_v2"}

InitUfInputs ==
    /\ uf_program \in UniqueFolderPrograms
    /\ uf_dirs \in SUBSET (0..MaxFolder)
    /\ uf_path = 0 - 1

NotRunningUf ==
    /\ uf_program = "none"
    /\ uf_dirs = {}
    /\ uf_path = 0 - 1

\* One call of the program's function on the listing.
UniqueFolder ==
    /\ UNCHANGED NotUf
    /\ uf_path = 0 - 1
    /\ uf_path' = IF uf_program = "main_v2"
                  THEN generate_unique_folder_name(uf_dirs)
                  ELSE get_unique_folder_path(uf_dirs, 0)
    /\ UNCHANGED <<uf_program, uf_dirs>>

\* ======================================================= file names
\* The decimal digits of n >= 0, most significant first.
RECURSIVE Digits(_)
Digits(n) == IF n < 10 THEN <<n>> ELSE Append(Digits(n \div 10), n % 10)

\* Python's {n:0<width>d}: the digits, zero-filled on the left to width.
RECURSIVE ZeroFill(_, _)
ZeroFill(ds, width) ==
    IF Len(ds) >= width THEN ds ELSE ZeroFill(<<0>> \o ds, width)

ZeroPad(n, width) == ZeroFill(Digits(n), width)

\* The name of a variation file: the words joined by "_", then "_", the index
\* and ".png". "baseName" is the input file's name without its extension.
\* main_v3: f"{base_filename}_{prefix}_{variations_created:02d}.png"
\* main_v4: f"{self.input_path.stem}_variation_{var_index:02d}.png"
\* main_v5, main_beta: f"{original_filename}_{i:03d}.png"
variation_filename(prog, i) ==
    IF prog = "main_v3"
    THEN [words |-> <<"baseName", "prefix">>, index |-> ZeroPad(i, 2)]
    ELSE IF prog = "main_v4"
    THEN [words |-> <<"baseName", "variation">>, index |-> ZeroPad(i, 2)]
    ELSE [words |-> <<"baseName">>, index |-> ZeroPad(i, 3)]

\* ======================================================= thumbnails
\* size=(100, 100), the default of create_thumbnail.
ThumbnailSize == 100

NoThumbnail == [status |-> "none"]

InitThInputs ==
    /\ img_shape \in [w : 1..MaxSide, h : 1..MaxSide, channels : {3, 4}]
    /\ thumbnail = NoThumbnail

NotRunningTh ==
    /\ img_shape = [w |-> 1, h |-> 1, channels |-> 3]
    /\ thumbnail = [status |-> "off"]

\* int(size * short / long) as the doubles give it: aspect_ratio = w / h is
\* rounded, and so is the product or quotient with 100, so that an exact whole
\* result above 1 may come out just below and truncate to one less
\* (29 x 100 gives int(100 * 0.29) = 28).
ScaledSide(short, long, lose) ==
    LET exact == (ThumbnailSize * short) \div long IN
    IF lose /\ (ThumbnailSize * short) % long = 0 /\ exact > 1
    THEN exact - 1
    ELSE exact

\* create_thumbnail: the new size from the aspect ratio, cv2.resize (which
\* raises for an empty size), and for four channels the blend onto a white
\* size x size background, which is what is returned.
create_thumbnail ==
    /\ UNCHANGED NotTh
    /\ thumbnail = NoThumbnail
    /\ \E lose \in BOOLEAN :
         LET w == img_shape.w
             h == img_shape.h
             new_w == IF w > h THEN ThumbnailSize ELSE ScaledSide(w, h, lose)
             new_h == IF w > h THEN ScaledSide(h, w, lose) ELSE ThumbnailSize
         IN
         thumbnail' =
             IF new_w <= 0 \/ new_h <= 0
             THEN [status |-> "error", new_w |-> new_w, new_h |-> new_h]
             ELSE [status |-> "ok", new_w |-> new_w, new_h |-> new_h,
                   shape |-> IF img_shape.channels = 4
                             THEN [w |-> ThumbnailSize, h |-> ThumbnailSize,
                                   channels |-> 3]
                             ELSE [w |-> new_w, h |-> new_h, channels |-> 3]]
    /\ UNCHANGED img_shape

\* ------------------------------------------------------------ main_v2.py
\* The generation of main_v2.py: one thread per press of the button, the
\* button disabled while it runs.  A variation file is named after the hue
\* shift and the saturation percentage of its cell.

RECURSIVE Gcd(_, _)
Gcd(a, b) == IF b = 0 THEN a ELSE Gcd(b, a % b)

RECURSIVE IsPowerOfTwo(_)
IsPowerOfTwo(n) == IF n = 1 THEN TRUE ELSE IF n % 2 = 1 THEN FALSE ELSE IsPowerOfTwo(n \div 2)

\* a / b is a double without rounding iff its reduced denominator is a power
\* of two (the numbers here are far below 2^53).
ExactQuotient(a, b) == IsPowerOfTwo(b \div Gcd(a, b))

\* int((a / b) * k) in doubles: the floor of the exact value, except that a
\* rounded quotient may put a product that is whole in exact arithmetic just
\* below the whole number.
IntOfScaledQuotient(a, b, k) ==
    LET exact == (a * k) \div b
    IN  IF (a * k) % b = 0 /\ k > 0 /\ ~ExactQuotient(a, b)
        THEN {exact, exact - 1}
        ELSE {exact}

\* hue_step = 180 / hue_var_count ; hue_shift = int(h * hue_step)
v2_hue_shift(h, hue_count) == IntOfScaledQuotient(HueRange, hue_count, h)

\* sat_factor = (s + 1) / sat_var_count ; int(sat_factor * 100)
v2_sat_percent(s, sat_count) == IntOfScaledQuotient(s + 1, sat_count, 100)

\* The entry fields take any whole number: a few small grids, and grids with
\* as many hue steps as OpenCV has hues, or more.
InitV2 ==
    /\ v2_hue_var_count \in (1..MaxGrid) \cup (HueRange..MaxHueV2)
    /\ v2_sat_var_count \in 1..MaxSatV2
    /\ btn_generate = "normal"
    /\ v2_pc = "idle"
    /\ v2_h = 0
    /\ v2_s = 0
    /\ processed_count = 0
    /\ v2_progress = Frac(0, 1)
    /\ variations_folder = {}

NotRunningV2 ==
    /\ v2_hue_var_count = 1
    /\ v2_sat_var_count = 1
    /\ btn_generate = "normal"
    /\ v2_pc = "idle"
    /\ v2_h = 0
    /\ v2_s = 0
    /\ processed_count = 0
    /\ v2_progress = Frac(0, 1)
    /\ variations_folder = {}

v2_total_variations == v2_hue_var_count * v2_sat_var_count + 1

\* generate_variations: the button is disabled and the thread is started.
v2_generate_variations ==
    /\ UNCHANGED NotV2
    /\ btn_generate = "normal"
    /\ v2_pc = "idle"
    /\ btn_generate' = "disabled"
    /\ v2_progress' = Frac(0, 1)
    /\ v2_pc' = "original"
    /\ UNCHANGED <<v2_hue_var_count, v2_sat_var_count, v2_h, v2_s,
                   processed_count, variations_folder>>

\* process_variations up to the loops: the adjusted source is written as
\* <base>_original into the output folder (not into variations).
v2_save_original ==
    /\ UNCHANGED NotV2
    /\ v2_pc = "original"
    /\ processed_count' = processed_count + 1
    /\ v2_progress' = Frac(processed_count + 1, v2_total_variations)
    /\ v2_h' = 0
    /\ v2_s' = 0
    /\ v2_pc' = "loop"
    /\ UNCHANGED <<v2_hue_var_count, v2_sat_var_count, btn_generate,
                   variations_folder>>

\* One pass of the inner loop: cv2.imwrite creates the file or replaces the
\* file of that name.
v2_save_variation ==
    /\ UNCHANGED NotV2
    /\ v2_pc = "loop"
    /\ v2_h < v2_hue_var_count
    /\ \E shift \in v2_hue_shift(v2_h, v2_hue_var_count) :
       \E percent \in v2_sat_percent(v2_s, v2_sat_var_count) :
           variations_folder' = variations_folder \cup {[hue |-> shift, sat |-> percent]}
    /\ processed_count' = processed_count + 1
    /\ v2_progress' = Frac(processed_count + 1, v2_total_variations)
    /\ IF v2_s + 1 < v2_sat_var_count
       THEN v2_s' = v2_s + 1 /\ v2_h' = v2_h
       ELSE v2_s' = 0 /\ v2_h' = v2_h + 1
    /\ UNCHANGED <<v2_hue_var_count, v2_sat_var_count, btn_generate, v2_pc>>

\* complete(): the run has ended without an error.
v2_complete ==
    /\ UNCHANGED NotV2
    /\ v2_pc = "loop"
    /\ v2_h = v2_hue_var_count
    /\ btn_generate' = "normal"
    /\ v2_pc' = "complete"
    /\ UNCHANGED <<v2_hue_var_count, v2_sat_var_count, v2_h, v2_s,
                   processed_count, v2_progress, variations_folder>>


\* Each program is a process of its own: while one is modelled the other one
\* is not running, and its variables stay at their values of construction.
NotRunningV3 ==
    /\ is_processing = FALSE
    /\ budget = [starts |-> 0, faults |-> 0]
    /\ hue_value = 1
    /\ saturation_value = 1
    /\ warnings = {}
    /\ worker = [r \in Runs |-> IdleWorker]
    /\ nruns = 0
    /\ faults = 0
    /\ cv_image = 0

NotRunningV5 ==
    /\ budget5 = [starts |-> 0, faults |-> 0]
    /\ hue_var_count = 1
    /\ sat_var_count = 1
    /\ overwrite_var = FALSE
    /\ folders = {}
    /\ progress_bar = Frac(0, 1)
    /\ after_queue = <<>>
    /\ timers = 0
    /\ thread = [r \in Runs |-> IdleThread]
    /\ nthreads = 0
    /\ faults5 = 0

Init ==
    /\ InitV3
    /\ NotRunningV5 /\ NotRunningFn /\ NotRunningPx /\ NotRunningCli
    /\ NotRunningUf /\ NotRunningTh
    /\ NotRunningV2

Next ==
    \/ start_processing
    \/ cancel_processing
    \/ \E r \in Runs : process_image(r)

Spec == Init /\ [][Next]_vars

\* Two runs on a sound disk, or one run with I/O faults, each sweeping one cell.
InitOneCell ==
    /\ is_processing = FALSE
    /\ budget \in {[starts |-> 2, faults |-> 0], [starts |-> 1, faults |-> 1]}
    /\ hue_value = 1
    /\ saturation_value = 1
    /\ warnings = {}
    /\ worker = [r \in Runs |-> IdleWorker]
    /\ nruns = 0
    /\ faults = 0
    /\ cv_image = 0
    /\ NotRunningV5 /\ NotRunningFn /\ NotRunningPx /\ NotRunningCli
    /\ NotRunningUf /\ NotRunningTh
    /\ NotRunningV2

\* The program with its worker threads scheduled fairly (the operating system
\* runs every thread that can run).
FairSpec ==
    /\ InitOneCell
    /\ [][Next]_vars
    /\ \A r \in Runs : WF_vars(process_image(r))

\* The same program with the user loading other images meanwhile.
NextSrc ==
    \/ Next
    \/ v3_load_image

SpecSrc == InitOneCell /\ [][NextSrc]_vars

NextV5 ==
    \/ generate_variations
    \/ run_after_callback
    \/ run_timer
    \/ \E r \in Runs : generate_variations_thread(r)

InitAppV5 ==
    /\ InitV5
    /\ NotRunningV3 /\ NotRunningFn /\ NotRunningPx /\ NotRunningCli
    /\ NotRunningUf /\ NotRunningTh
    /\ NotRunningV2

SpecV5 == InitAppV5 /\ [][NextV5]_vars

InitFn ==
    /\ InitFnInputs
    /\ NotRunningV3 /\ NotRunningV5 /\ NotRunningPx /\ NotRunningCli
    /\ NotRunningUf /\ NotRunningTh
    /\ NotRunningV2

NextFn ==
    \/ ApplySaturationFactor
    \/ ApplyHueShift
    \/ ApplyToPixel

SpecFn == InitFn /\ [][NextFn]_vars

InitPx ==
    /\ InitPxInputs
    /\ NotRunningV3 /\ NotRunningV5 /\ NotRunningFn /\ NotRunningCli
    /\ NotRunningUf /\ NotRunningTh
    /\ NotRunningV2

NextPx ==
    \/ ApplyColorVariation
    \/ ProcessVariation
    \/ UpdatePreview
    \/ ApplyRgbAdjustment

SpecPx == InitPx /\ [][NextPx]_vars

InitMainV4 ==
    /\ InitCli
    /\ NotRunningV3 /\ NotRunningV5 /\ NotRunningFn /\ NotRunningPx
    /\ NotRunningUf /\ NotRunningTh
    /\ NotRunningV2

NextCli ==
    \/ parse_arguments
    \/ main
    \/ load_image
    \/ create_dir
    \/ write_variation
    \/ save_processing_details

SpecCli == InitMainV4 /\ [][NextCli]_vars

InitUf ==
    /\ InitUfInputs
    /\ NotRunningV3 /\ NotRunningV5 /\ NotRunningFn /\ NotRunningPx
    /\ NotRunningCli /\ NotRunningTh
    /\ NotRunningV2

NextUf == UniqueFolder

SpecUf == InitUf /\ [][NextUf]_vars

InitTh ==
    /\ InitThInputs
    /\ NotRunningV3 /\ NotRunningV5 /\ NotRunningFn /\ NotRunningPx
    /\ NotRunningCli /\ NotRunningUf
    /\ NotRunningV2

NextTh == create_thumbnail

SpecTh == InitTh /\ [][NextTh]_vars

InitAppV2 ==
    /\ InitV2
    /\ NotRunningV3 /\ NotRunningV5 /\ NotRunningFn /\ NotRunningPx
    /\ NotRunningCli /\ NotRunningUf /\ NotRunningTh

NextV2 ==
    \/ v2_generate_variations
    \/ v2_save_original
    \/ v2_save_variation
    \/ v2_complete

SpecV2 == InitAppV2 /\ [][NextV2]_vars

\* ---------------------------------------------------------------- claims
Ended(r) == worker[r].pc \in {"finally", "done"}

\* How often a sequence of progress values holds 1.0.
Ones(seq) == Cardinality({k \in 1..Len(seq) : IsOne(seq[k])})

\* C1: at most one generation worker is active at any time (a start request made
\* while a run is active starts no worker).
C1_AtMostOneWorker == Cardinality({r \in Runs : Active(r)}) <= 1

\* C2: once cancel has been requested during a run, that run's worker starts no
\* further variation, whatever the caller does next.
C2_NoVariationStartedAfterCancel ==
    [][\A r \in Runs :
          worker[r].cancel # NoCancel =>
              worker'[r].variations_created = worker[r].variations_created]_vars

\* C3: when cancel is requested in the sweep with k variations emitted and none in
\* flight, the run writes no further file (exactly k files stay on disk) and
\* reports "cancelled", not "failed" and not "completed".
C3_CancelKeepsExactlyK ==
    /\ [][\A r \in Runs :
             worker[r].cancel = "checkpoint" =>
                 worker'[r].files = worker[r].files]_vars
    /\ [](\A r \in Runs :
             (Ended(r) /\ worker[r].cancel = "checkpoint") =>
                 worker[r].report = "cancelled")

\* C5: a run reports the progress value 1.0 exactly once if it completes
\* successfully, and never if it is cancelled or fails.
C5_OneExactlyOnceOnSuccess ==
    \A r \in Runs :
        /\ Ones(worker[r].delivered) <= 1
        /\ Ended(r) =>
             (Ones(worker[r].delivered) =
                 IF worker[r].report = "completed" THEN 1 ELSE 0)

\* A run that was neither cancelled (it never left a loop at a checkpoint) nor
\* failed (no exception, no write error).
Undisturbed(r) ==
    /\ Ended(r)
    /\ worker[r].report = "completed"
    /\ ~worker[r].broke
    /\ worker[r].save_errors = 0

\* C6: a run that is neither cancelled nor failed emits N_h*N_s variations in
\* hue-major order: the k-th emitted variation is cell (hue, sat) =
\* (k div N_s, k mod N_s).
C6_HueMajorOrder ==
    \A r \in Runs :
        Undisturbed(r) =>
            LET w == worker[r] IN
            /\ Len(w.emitted) = w.hue_variations * w.saturation_levels
            /\ \A k \in 0..(Len(w.emitted) - 1) :
                  w.emitted[k + 1] = [hue |-> k \div w.saturation_levels,
                                      sat |-> k % w.saturation_levels]

\* p <= q for two progress values (denominators are positive).
FracLeq(p, q) == p.num * q.den <= q.num * p.den

\* C4: the progress values one run delivers, directly or through its deferred
\* callbacks, never decrease (the reset to 0 of a failed run set aside).
C4_ProgressNonDecreasing ==
    \A r \in Runs :
        thread[r].report # "failed" =>
            \A k \in 1..(Len(thread[r].delivered) - 1) :
                FracLeq(thread[r].delivered[k], thread[r].delivered[k + 1])

\* C9: a run started with a non-positive hue (saturation) count sweeps with the
\* default 10 (3) in its place and has warned about it.
C9_DefaultsSubstituted ==
    \A r \in Runs :
        thread[r].pc \in {"generate", "save"} =>
            /\ hue_var_count <= 0 =>
                  /\ thread[r].hue_count = DefaultHueVariations
                  /\ "hue" \in thread[r].warned
            /\ sat_var_count <= 0 =>
                  /\ thread[r].sat_count = DefaultSaturationLevels
                  /\ "saturation" \in thread[r].warned

\* C7: the saturation factor of index j < N_s lies in (0, 1], is smaller than the
\* factor of index j+1, and is exactly 1.0 for j = N_s - 1.
C7_SaturationFactor ==
    (result.op = "saturation") =>
        LET f == result.value
            g == saturation_factor(program, index + 1, count)
        IN  /\ f.num > 0
            /\ f.num <= f.den
            /\ index + 1 < count => f.num * g.den < g.num * f.den
            /\ index + 1 = count => (f.num = f.den /\ ~f.below)

\* C8: the hue rotation of index i < N_h is exactly i*(360/N_h) degrees and lies
\* in [0, 360); the rotation of index N_h is a multiple of 360 degrees.
C8_HueRotation ==
    (result.op = "hue") =>
        LET d == result.value IN
        /\ d.num * count = index * 360 * d.den
        /\ index < count => (0 <= d.num /\ d.num < 360 * d.den)
        /\ index = count => d.num % (360 * d.den) = 0

\* C10: a pixel of an emitted variation has the alpha value of the source pixel,
\* for every transparency mode.
C10_AlphaPreserved ==
    (result.op = "pixel") => result.alpha = src_alpha

\* The difference max(R,G,B) - min(R,G,B) of the source pixel.
ChannelSpread == Max3(pixel.r, pixel.g, pixel.b) - Min3(pixel.r, pixel.g, pixel.b)

\* The grayscale policy in force excludes the source pixel: ExactGray excludes
\* it iff max = min, NearGray(t) iff max - min < t.
GrayExcluded ==
    \/ skip_gray /\ ChannelSpread = 0
    \/ skip_near_gray_threshold > 0 /\ ChannelSpread < skip_near_gray_threshold

\* The transparency policy in force lets the source pixel through.
TransparencyPasses ==
    IF ~has_alpha THEN TRUE
    ELSE IF px_program = "main_v3"
    THEN CASE px_transparency_mode = 1 -> pixel.a < 255
           [] px_transparency_mode = 2 -> pixel.a = 255
           [] OTHER -> TRUE
    ELSE CASE transparent_only -> pixel.a < 255
           [] opaque_only -> pixel.a = 255
           [] OTHER -> TRUE

SourceRgbKept ==
    /\ variation.px.r = pixel.r
    /\ variation.px.g = pixel.g
    /\ variation.px.b = pixel.b

\* C11: a pixel is left out of the hue/saturation transform by the grayscale
\* policy exactly when max = min (ExactGray) or max - min < t (NearGray(t)),
\* and a pixel left out has its source RGB in the variation.
C11_GrayGate ==
    variation.done =>
        /\ GrayExcluded => (~variation.px.processed /\ SourceRgbKept)
        /\ (~GrayExcluded /\ TransparencyPasses) => variation.px.processed

\* C11 witness: NearGray(10) leaves out the pixel (100,104,100) of a variation
\* whose transform would have changed it.
C11_Witness ==
    /\ variation.done
    /\ px_program = "main_v4"
    /\ ~skip_gray
    /\ skip_near_gray_threshold = 10
    /\ pixel.r = 100 /\ pixel.g = 104 /\ pixel.b = 100
    /\ ~variation.px.processed
    /\ apply_hsv(pixel, cell, rgb_scale, <<0, 0, 0>>)
           # Rgb(pixel.r, pixel.g, pixel.b)

\* C12: for a source with alpha, TransparentOnly transforms only pixels with
\* alpha < 255, OpaqueOnly only pixels with alpha = 255, All every pixel the
\* grayscale gate lets through; a pixel failing either gate keeps its source RGB.
C12_TransparencyGate ==
    (variation.done /\ has_alpha) =>
        /\ variation.px.processed <=> (TransparencyPasses /\ ~GrayExcluded)
        /\ ~(TransparencyPasses /\ ~GrayExcluded) => SourceRgbKept

\* C12 witness: TransparentOnly in main_v3 leaves an opaque pixel as it is in a
\* variation whose transform would have changed it.
C12_Witness ==
    /\ variation.done
    /\ has_alpha
    /\ px_program = "main_v3"
    /\ px_transparency_mode = 1
    /\ pixel.a = 255
    /\ SourceRgbKept
    /\ process_rgb_image(pixel, cell, 0, 10) # Rgb(pixel.r, pixel.g, pixel.b)

\* C13: channel adjustment with strengths (1.0, 1.0, 1.0) returns every pixel
\* with its R, G, B and alpha unchanged, additive or multiplicative.
C13_UnitStrengthsIdentity ==
    (adjusted.done /\ rgb_scale = <<100, 100, 100>>) => adjusted.px = pixel

\* C13 witness: a coloured pixel adjusted with unit strengths in multiplicative
\* mode.
C13_Witness ==
    /\ adjusted.done
    /\ px_program = "main_v5"
    /\ rgb_scale = <<100, 100, 100>>
    /\ rgb_adjustment_mode = "multiplicative"
    /\ pixel.r = 200 /\ pixel.g = 100 /\ pixel.b = 50 /\ pixel.a = 128

\* C14: a run requested with a channel strength outside [0.0, 2.0] (r_scale
\* above 200 hundredths) is rejected before processing: it emits no variation
\* and writes no file.
C14_InvalidStrengthRejected ==
    args.r_scale > 200 => (written = <<>> /\ ~details_saved)

\* C15: uniqueFolder(P) is P when P does not exist, otherwise P_k for the
\* smallest k >= 1 such that P_k does not exist; the returned path does not
\* exist at the moment of return.
C15_UniqueFolder ==
    uf_path # 0 - 1 =>
        /\ uf_path \notin uf_dirs
        /\ 0 \notin uf_dirs => uf_path = 0
        /\ 0 \in uf_dirs =>
               /\ uf_path >= 1
               /\ \A k \in 1..(uf_path - 1) : k \in uf_dirs

\* C16: with the overwrite option disabled, a run writes its variations into
\* uniqueFolder(base) evaluated on the folders that existed when the run was
\* requested: into the base folder itself when that did not exist, and never
\* into a folder that existed then.
C16_OutputIsUniqueFolderAtRequest ==
    \A r \in Runs :
        (~overwrite_var /\ thread[r].saved # <<>>) =>
            /\ thread[r].output_path =
                   get_unique_folder_path(thread[r].requested_dirs, 0)
            /\ thread[r].output_path \notin thread[r].requested_dirs

\* C17: the variation at 0-based sweep position k is written to the file
\* {baseName}_{k:03d}.png: the j-th file a run writes (j counted from 1) is
\* named baseName, "_", and j - 1 zero-padded to three digits.
C17_FileNames ==
    \A r \in Runs : \A j \in 1..Len(worker[r].files) :
        variation_filename("main_v3", worker[r].files[j]) =
            [words |-> <<"baseName">>, index |-> ZeroPad(j - 1, 3)]

\* C18: for every image of width and height at least 1, create_thumbnail
\* succeeds; the resized image fits in 100 x 100, both its sides are at least 1,
\* its longer side is 100 and its shorter side is the truncated proportional
\* length (or, by the rounding of the doubles, one less).
C18_ThumbnailFits ==
    thumbnail.status \notin {"none", "off"} =>
        /\ thumbnail.status = "ok"
        /\ thumbnail.new_w \in 1..ThumbnailSize
        /\ thumbnail.new_h \in 1..ThumbnailSize
        /\ ThumbnailSize \in {thumbnail.new_w, thumbnail.new_h}
        /\ LET short == Min3(img_shape.w, img_shape.h, img_shape.h)
               long == Max3(img_shape.w, img_shape.h, img_shape.h)
               side == Min3(thumbnail.new_w, thumbnail.new_h, thumbnail.new_h)
           IN side * long <= ThumbnailSize * short
              /\ ThumbnailSize * short < (side + 2) * long

\* C19: a failure while writing a variation file aborts the run: no variation
\* after the failed one is written and the run does not report successful
\* completion.
C19_WriteFailureAborts ==
    \A r \in Runs :
        worker[r].save_errors > 0 =>
            /\ worker[r].report # "completed"
            /\ \A j \in 1..Len(worker[r].files) :
                   worker[r].files[j] < worker[r].variations_created

\* C20: main_v4 ends with exit code 0 exactly when processing succeeded
\* (process_image went through, and every variation of the sweep is on disk
\* unless the run was a dry run), and every invocation ends with code 0 or 1.
C20_ExitCodes ==
    cli_pc = "exited" =>
        /\ exit_code \in {0, 1}
        /\ exit_code = 0 <=>
               /\ success = "True"
               /\ args.dry_run \/ Len(written) = args.sat_count * args.hue_count

\* The cells of a sweep in the order process_image visits them: the saturation
\* index in the outer loop, the hue index in the inner loop.
PlannedVariations ==
    [n \in 1..(args.sat_count * args.hue_count) |->
        Cell((n - 1) % args.hue_count, (n - 1) \div args.hue_count)]

\* C21: in dry-run mode no step creates a directory, writes a variation file
\* or writes the metadata sidecar, and a dry run that went through has logged
\* every planned variation.
C21_DryRunWritesNothing ==
    [][args.dry_run =>
          /\ cli_dirs' = cli_dirs
          /\ written' = <<>>
          /\ ~details_saved'
          /\ success' = "True" => dry_logged' = PlannedVariations]_vars

C21_Witness ==
    /\ args.dry_run
    /\ success = "True"
    /\ Len(dry_logged) >= 2
    /\ 0 \notin cli_dirs

\* A main_v4 or main_v3 variation computed with no mask and unit strengths.
Unmasked ==
    /\ px_program \in {"main_v4", "main_v3"}
    /\ variation.done
    /\ ~skip_gray /\ skip_near_gray_threshold = 0
    /\ ~transparent_only /\ ~opaque_only
    /\ px_transparency_mode = 0
    /\ rgb_scale = <<100, 100, 100>>

VariationRgb == Rgb(variation.px.r, variation.px.g, variation.px.b)

\* C22: with no mask and unit strengths the variation with hue rotation 0 and
\* saturation factor 1.0 equals the source pixel; for the source (255,0,0) and
\* two hues, variation 0 is (255,0,0) and variation 1 is (0,255,255).
C22_RoundTripIdentity ==
    Unmasked =>
        /\ (cell.hue_idx = 0 /\ cell.sat_idx + 1 = cell.sat_count) =>
               VariationRgb = Rgb(pixel.r, pixel.g, pixel.b)
        /\ (Rgb(pixel.r, pixel.g, pixel.b) = Rgb(255, 0, 0)
               /\ cell.hue_count = 2 /\ cell.sat_count = 1) =>
               VariationRgb = IF cell.hue_idx = 0 THEN Rgb(255, 0, 0)
                              ELSE Rgb(0, 255, 255)

\* C23: with no mask (and unit strengths) a main_v4 pixel with R = G = B has
\* h = 0 and s = 0 and is unchanged in every variation, whatever the hue
\* rotation and the saturation factor.
C23_GrayUnchanged ==
    (Unmasked /\ px_program = "main_v4" /\ ChannelSpread = 0) =>
        /\ rgb_to_hs(pixel).h.num = 0
        /\ rgb_to_hs(pixel).s.num = 0
        /\ SourceRgbKept
        /\ variation.px.a = pixel.a

\* C23 witness: the last of the four variations (N_h = 4, N_s = 1) of an opaque
\* white RGBA pixel has been computed.
C23_Witness ==
    /\ Unmasked /\ px_program = "main_v4"
    /\ has_alpha /\ pixel.a = Opaque
    /\ Rgb(pixel.r, pixel.g, pixel.b) = Rgb(255, 255, 255)
    /\ cell = [hue_idx |-> 3, hue_count |-> 4, sat_idx |-> 0, sat_count |-> 1]
    /\ variation.px.processed

\* C24: the variation files of a run are written in increasing sweep order,
\* and at no time does a run hold more than one variation that has been
\* generated and not yet written.
C24_AtMostOneUnwritten ==
    \A r \in Runs :
        /\ \A j \in 1..Len(thread[r].saved) : thread[r].saved[j] = j - 1
        /\ Len(thread[r].combined_variations) - thread[r].num_saved <= 1

C26_SourceSnapshot ==
    \A r \in Runs : \A j \in 1..Len(worker[r].sources) :
        worker[r].sources[j] = worker[r].started_with

\* C27: a run ends as "cancelled" only if cancel was requested during that
\* same run; the end of an earlier run never clears the flag of a later one.
C27_CancelledOnlyOnRequest ==
    \A r \in Runs :
        worker[r].report = "cancelled" => worker[r].cancel # NoCancel

\* C28: after a run that ended without cancellation or failure the output
\* holds exactly N_h * N_s variation files: no cell's file was written over the
\* file of another cell (main_v2.py names a file after its hue shift and its
\* saturation percentage).
C28_DistinctPaths ==
    v2_pc = "complete" =>
        Cardinality(variations_folder) = v2_hue_var_count * v2_sat_var_count

\* A thread that has the folder it will write into and has not ended.
HasSelected(r) == thread[r].pc \notin {"idle", "begin", "done"}

\* C29: with the overwrite option off, two generation threads that are alive
\* at the same time never hold the same output folder.
C29_OverlappingRunsDistinctFolders ==
    \A r1 \in Runs : \A r2 \in Runs :
        (r1 # r2 /\ ~overwrite_var /\ HasSelected(r1) /\ HasSelected(r2))
            => thread[r1].output_path # thread[r2].output_path

\* C30: whenever a run has reported progress k/N, at least k of its variation
\* files are on the disk; so 1.0 is not reported while a file is still to be
\* written.
C30_ProgressFollowsWrites ==
    \A r \in Runs :
        LET w == worker[r] IN
        w.delivered # <<>> =>
            LET p == w.delivered[Len(w.delivered)] IN
            p.num * w.total_variations <= Len(w.files) * p.den

====
